---------------------------- MODULE Spec2Model ----------------------------
(***************************************************************************)
(* Offteam backup tool (src/main.rs): the command executor                 *)
(* execute_command_with_retry, the backup pipeline perform_backup and the  *)
(* scheduler loop run_daemon_mode, as one state machine.                   *)
(*                                                                         *)
(* A shell command is the sequence of its words; the process it spawns is  *)
(* the environment's choice of an outcome.  Errors are records             *)
(* [prefix, text]: text is a sequence of code points.                      *)
(***************************************************************************)
EXTENDS Integers, Sequences, FiniteSets, TLC

(***************************************************************************)
(* Bounds of the model.                                                    *)
(***************************************************************************)
\* largest max_retries the executor is called with on its own
MaxAttempts == 4
\* most paths in config.backup_paths
MaxPaths == 2
\* the scaled calendar: hours of a day, minutes of an hour, days of a year
HoursPerDay == 2
MinutesPerHour == 2
DaysPerYear == 2
\* the scheduler loop is followed for this many days
MaxDay == 2
\* longest run of perform_backup, in 30-second ticks
MaxRunTicks == 1
\* most backups started from the menu in one session
MaxMenuRuns == 1

(***************************************************************************)
(* Program constants.                                                      *)
(***************************************************************************)
\* U+FFFD, what String::from_utf8_lossy puts for an invalid byte
ReplacementChar == 65533
\* bytes below this are ASCII: one byte, one code point
AsciiLimit == 128
\* max_retries of every pipeline command but the branch probe
PipelineRetries == 3
\* max_retries of the git ls-remote probe
ProbeRetries == 2
\* the clock counts 30-second ticks: sleep(30 s), sleep(60 s), one minute
PollSleepTicks == 1
FireSleepTicks == 2
TicksPerMinute == 2

VARIABLES
    ex,            \* a call of execute_command_with_retry followed pass by pass
    config,        \* the Config in memory
    disk,          \* config.json: [intact, last_backup]
    run,           \* the locals and the result of the perform_backup call
    fs,            \* the staging directory of the latest run: [staging, gitignore, manifest]
    hold,          \* the holding areas /tmp/temp_copy_<i> that exist: [idx, old, new]
    clock,         \* wall clock (Moscow), in ticks since the daemon started
    last_backup_day,   \* the local of run_daemon_mode
    d_pc,          \* "poll" | "backup" | "exit" | "off": where run_daemon_mode is
    fire_day,      \* history: the calendar day of the latest firing (0: none)
    fires_that_day,    \* history: the firings on that day
    ok_day,        \* history: the calendar day of the latest run that returned Ok
    slept,         \* history: the ticks the latest pass of the daemon's loop slept
    m_pc,          \* "menu" | "backup" | "exit_ok" | "exit_err" | "off": where main's menu loop is
    m_runs,        \* history: the backups started from the menu
    exists         \* the paths that are there on the filesystem (Path::exists)

cfgVars == <<config, disk>>
pipeVars == <<run, fs, hold>>
daemonVars == <<clock, last_backup_day, d_pc, fire_day, fires_that_day, ok_day,
                slept>>

menuVars == <<m_pc, m_runs, exists>>

vars == <<ex, cfgVars, pipeVars, daemonVars, menuVars>>

(***************************************************************************)
(* Errors.                                                                 *)
(***************************************************************************)
NoError == [prefix |-> "none", text |-> <<>>]
\* "Неизвестная ошибка": last_error.unwrap_or_else at the end of the executor
UnknownError == [prefix |-> "unknown", text |-> <<>>]

(***************************************************************************)
(* What Command::new("sh").arg("-c").arg(cmd).output() can give: the sh    *)
(* process exits 0, or exits non-zero with a stderr, or does not spawn.    *)
(* A stderr is a sequence of bytes: 97 and 98 are ASCII, 255 is a byte no  *)
(* UTF-8 text holds.  A spawn error is an io::Error, already text.         *)
(***************************************************************************)
RawStderr == {<<97>>, <<98, 255>>}
SpawnErrs == {<<110>>}

Outcomes ==
    {[kind |-> "exit", ok |-> TRUE, err |-> <<>>]}
    \cup {[kind |-> "exit", ok |-> FALSE, err |-> e] : e \in RawStderr}
    \cup {[kind |-> "spawn", ok |-> FALSE, err |-> e] : e \in SpawnErrs}

NoOutcome == [kind |-> "none", ok |-> FALSE, err |-> <<>>]

(***************************************************************************)
(* Commands of the stand-alone executor runs: one that is no pull, one     *)
(* that is, one that ends in "|| true".                                    *)
(***************************************************************************)
NoCmd == <<>>
HarnessCmds ==
    { <<"cd", "dir", "&&", "git", "init">>,
      <<"cd", "dir", "&&", "git", "pull", "origin", "main", "--no-edit">>,
      <<"cd", "dir", "&&", "git", "fetch", "origin", "main", "||", "true">> }

\* the || true not seen: the exit status is that of A && B
EndsOrTrueNever(cmd) == FALSE

\* sh -c "A && B || true" exits 0 whatever A and B do
EndsOrTrue(cmd) ==
    /\ Len(cmd) >= 2
    /\ cmd[Len(cmd) - 1] = "||"
    /\ cmd[Len(cmd)] = "true"

\* the outcomes the sh process of cmd can have
ProcOutcomes(cmd) ==
    IF EndsOrTrue(cmd)
    THEN {o \in Outcomes : o.kind = "spawn" \/ o.ok}
    ELSE Outcomes

\* never recognised: the test left out of the success condition
ContainsGitPullNever(cmd) == FALSE

\* cmd.contains("git pull")
ContainsGitPull(cmd) ==
    \E i \in 1..(Len(cmd) - 1) : cmd[i] = "git" /\ cmd[i + 1] = "pull"

\* String::from_utf8_lossy on the bytes of the model's alphabet
FromUtf8Lossy(bytes) ==
    [i \in 1..Len(bytes) |->
        IF bytes[i] < AsciiLimit THEN bytes[i] ELSE ReplacementChar]

\* format!("Ошибка при выполнении команды: {}", error)
ErrorMsg(o) ==
    [prefix |-> "exec",
     text |-> IF o.kind = "spawn" THEN o.err ELSE FromUtf8Lossy(o.err)]

\* every exit counted as a success
AttemptSucceedsAnyExit(cmd, o) == o.kind = "exit"

\* Ok(output) with output.status.success() || cmd.contains("git pull")
AttemptSucceeds(cmd, o) ==
    o.kind = "exit" /\ (o.ok \/ ContainsGitPull(cmd))

\* the sleep made after every failure, the last one too
SleepsAfterAlways(a, max_retries) == TRUE

\* if attempt < max_retries { sleep(5s) }
SleepsAfter(a, max_retries) == a < max_retries

\* the first error kept, later ones dropped
NextLastErrorKeepFirst(le, o) == IF le = NoError THEN ErrorMsg(o) ELSE le

\* last_error = Some(error_msg)
NextLastError(le, o) == ErrorMsg(o)

\* last_error.unwrap_or_else(|| "Неизвестная ошибка")
FinalError(le) == IF le = NoError THEN UnknownError ELSE le

\* the return on success left out: the loop runs on to its last pass
StatusAfterNoReturn(a, max_retries, succeeded) ==
    IF a < max_retries THEN "running"
    ELSE IF succeeded THEN "ok" ELSE "err"

\* return Ok(()) on success; otherwise the next pass, or, after the last
\* pass, Err(final_error)
StatusAfter(a, max_retries, succeeded) ==
    IF succeeded THEN "ok"
    ELSE IF a < max_retries THEN "running" ELSE "err"

\* no call made yet
ExecIdle ==
    [cmd |-> NoCmd, max |-> 0, attempt |-> 0, status |-> "idle",
     last_error |-> NoError, err |-> NoError,
     \* history
     invocations |-> 0, delays |-> 0, last_o |-> NoOutcome, first_ok |-> 0,
     spawn_fails |-> 0, errs_differ |-> FALSE]

(***************************************************************************)
(* execute_command_with_retry(cmd, max_retries): one pass of its for loop  *)
(* (with the return that follows the last pass), or, when the range        *)
(* 1..=max_retries is empty, the fall-through to the final error.  e is    *)
(* the call so far: e.status = "running" inside the loop, anything else    *)
(* for a call that starts.  The fields are status ("running", "ok",        *)
(* "err"), err (the error returned), attempt and last_error (the locals),  *)
(* and the history: invocations (processes spawned or tried), delays       *)
(* (5-second sleeps), last_o (the latest outcome), first_ok (the first     *)
(* attempt whose process exited 0), spawn_fails, errs_differ (two failed   *)
(* attempts gave different outcomes).                                      *)
(***************************************************************************)
ExecStep(e, cmd, max_retries, o) ==
    LET c  == IF e.status = "running" THEN e ELSE ExecIdle
        a  == c.attempt + 1
        ok == AttemptSucceeds(cmd, o)
        le == IF ok THEN c.last_error ELSE NextLastError(c.last_error, o)
        st == StatusAfter(a, max_retries, ok)
    IN  IF a > max_retries
        THEN [c EXCEPT !.cmd = cmd, !.max = max_retries, !.status = "err",
                       !.err = FinalError(c.last_error)]
        ELSE [cmd |-> cmd, max |-> max_retries, attempt |-> a, status |-> st,
              last_error |-> le,
              err |-> IF st = "err" THEN FinalError(le) ELSE NoError,
              invocations |-> c.invocations + 1,
              delays |-> c.delays
                         + (IF ~ok /\ SleepsAfter(a, max_retries) THEN 1 ELSE 0),
              last_o |-> o,
              first_ok |-> IF c.first_ok > 0 THEN c.first_ok
                           ELSE IF o.kind = "exit" /\ o.ok THEN a ELSE 0,
              spawn_fails |-> c.spawn_fails + (IF o.kind = "spawn" THEN 1 ELSE 0),
              errs_differ |-> \/ c.errs_differ
                              \/ c.attempt > 0 /\ ~o.ok /\ ~c.last_o.ok /\ o # c.last_o]

\* the executor records a call can end in, from the record e of a call
RECURSIVE ExecRuns(_, _, _)
ExecRuns(e, cmd, max_retries) ==
    IF e.status = "running"
    THEN UNION {ExecRuns(ExecStep(e, cmd, max_retries, o), cmd, max_retries) :
                   o \in ProcOutcomes(cmd)}
    ELSE {e}

\* execute_command_with_retry(cmd, max_retries) as its caller sees it: the
\* Result it returns, whether a process of the command has exited 0, the
\* number of attempts a call that returned Err made, and whether the last
\* process exited non-zero
ExecCall(cmd, max_retries) ==
    {[status |-> e.status, err |-> e.err, exited0 |-> e.first_ok > 0,
      fail_attempts |-> IF e.status = "err" THEN e.invocations ELSE 0,
      nonzero |-> e.last_o.kind = "exit" /\ ~e.last_o.ok] :
        e \in UNION {ExecRuns(ExecStep(ExecIdle, cmd, max_retries, o), cmd, max_retries) :
                        o \in ProcOutcomes(cmd)}}

(***************************************************************************)
(* The configuration (src/config.rs).  An Option<String> is None or a      *)
(* word; a time of day is the text "hh:mm", kept as its two numbers.       *)
(***************************************************************************)
None == "None"
NoStamp == <<>>
NoTime == [some |-> FALSE, hh |-> 0, mm |-> 0]
\* a text that is no time of day: its hour is past the last hour
BadTime == [some |-> TRUE, hh |-> HoursPerDay, mm |-> 0]
TimeA == [some |-> TRUE, hh |-> 0, mm |-> 1]
TimeB == [some |-> TRUE, hh |-> 1, mm |-> 0]

\* the paths a user has configured: a file and a directory
Paths == {"f", "d"}
\* path_obj.is_file()
IsFile(path) == path = "f"

RECURSIVE SeqsUpTo(_, _)
SeqsUpTo(S, n) ==
    IF n = 0 THEN {<<>>}
    ELSE LET shorter == SeqsUpTo(S, n - 1)
         IN  shorter \cup {Append(q, x) : q \in {z \in shorter : Len(z) = n - 1}, x \in S}

\* Config::load() when there is no config.json
DefaultConfig ==
    [gitea_url |-> None, gitea_repo |-> None, gitea_username |-> None,
     gitea_password |-> None, backup_paths |-> <<>>, last_backup |-> NoStamp,
     backup_name |-> None, backup_frequency |-> None, backup_time |-> NoTime]

\* a configuration with everything set
FullConfig(paths) ==
    [gitea_url |-> "host", gitea_repo |-> "repo", gitea_username |-> "user",
     gitea_password |-> "secret", backup_paths |-> paths, last_backup |-> NoStamp,
     backup_name |-> "srv", backup_frequency |-> "Daily", backup_time |-> TimeA]

\* the configurations the daemon is started with: every list of paths with
\* everything else set, and one thing absent or different at a time
Configs ==
    {FullConfig(p) : p \in SeqsUpTo(Paths, MaxPaths)}
    \cup {DefaultConfig,
          [DefaultConfig EXCEPT !.backup_time = TimeA],
          [DefaultConfig EXCEPT !.backup_time = TimeA, !.backup_paths = <<"d">>],
          [FullConfig(<<"d">>) EXCEPT !.gitea_url = None],
          [FullConfig(<<"d">>) EXCEPT !.gitea_repo = None],
          [FullConfig(<<"d">>) EXCEPT !.gitea_username = None],
          [FullConfig(<<"d">>) EXCEPT !.gitea_password = None],
          [FullConfig(<<"d">>) EXCEPT !.backup_name = None],
          [FullConfig(<<"d">>) EXCEPT !.backup_frequency = None],
          [FullConfig(<<"d">>) EXCEPT !.backup_frequency = "Weekly"],
          [FullConfig(<<"d">>) EXCEPT !.backup_frequency = "Monthly"],
          [FullConfig(<<"f">>) EXCEPT !.backup_time = TimeB],
          [FullConfig(<<"d">>) EXCEPT !.backup_time = BadTime],
          [FullConfig(<<"d">>) EXCEPT !.backup_time = NoTime]}

(***************************************************************************)
(* The clock: get_moscow_time(), and chrono's hour(), minute(), ordinal(). *)
(***************************************************************************)
TicksPerDay == TicksPerMinute * MinutesPerHour * HoursPerDay
MaxClock == MaxDay * TicksPerDay - 1
\* the calendar day, counted from the day the daemon started
Day(t) == (t \div TicksPerDay) + 1
Hour(t) == (t % TicksPerDay) \div (TicksPerMinute * MinutesPerHour)
Minute(t) == ((t % TicksPerDay) \div TicksPerMinute) % MinutesPerHour
\* the day of the year, from 1
Ordinal(t) == ((Day(t) - 1) % DaysPerYear) + 1
\* moscow_time.format("%Y-%m-%d %H:%M:%S MSK")
Stamp(t) == <<Day(t), Hour(t), Minute(t), t % TicksPerMinute>>

\* NaiveTime::parse_from_str(backup_time, "%H:%M").is_ok()
ParsesAsTime(t) ==
    t.hh \in 0..(HoursPerDay - 1) /\ t.mm \in 0..(MinutesPerHour - 1)

(***************************************************************************)
(* perform_backup: its errors, its commands, its locals.                   *)
(***************************************************************************)
Err(p) == [prefix |-> p, text |-> <<>>]

\* the check of the paths alone: the ok_or(..)? of the four fields left out
PreconditionErrorPathsOnly(cfg) ==
    IF cfg.backup_paths = <<>> THEN Err("no_paths") ELSE NoError

\* the early returns of lines 271-296, in the order format! evaluates them
PreconditionError(cfg) ==
    IF cfg.backup_paths = <<>> THEN Err("no_paths")
    ELSE IF cfg.gitea_username = None THEN Err("no_username")
    ELSE IF cfg.gitea_password = None THEN Err("no_password")
    ELSE IF cfg.gitea_url = None THEN Err("no_url")
    ELSE IF cfg.gitea_repo = None THEN Err("no_repo")
    ELSE NoError

\* git_configs
GitConfigs(cfg) ==
    << <<"cd", "backup_dir", "&&", "git", "init">>,
       <<"cd", "backup_dir", "&&", "git", "config", "user.name", cfg.gitea_username>>,
       <<"cd", "backup_dir", "&&", "git", "config", "user.email", cfg.gitea_username>>,
       <<"cd", "backup_dir", "&&", "git", "config", "http.postBuffer", "524288000">>,
       <<"cd", "backup_dir", "&&", "git", "config", "http.timeout", "300">>,
       <<"cd", "backup_dir", "&&", "git", "config", "core.compression", "9">>,
       <<"cd", "backup_dir", "&&", "git", "config", "push.default", "simple">>,
       <<"cd", "backup_dir", "&&", "git", "config", "pull.rebase", "false">>,
       <<"cd", "backup_dir", "&&", "git", "remote", "add", "origin", cfg.gitea_url>> >>

ProbeCmd ==
    <<"cd", "backup_dir", "&&", "git", "ls-remote", "--heads", "origin", "main">>

\* "main" if the probe returned Ok, else "master"
BranchOf(probe_ok) == IF probe_ok THEN "main" ELSE "master"

\* sync_commands
SyncCommands(branch) ==
    << <<"cd", "backup_dir", "&&", "git", "fetch", "origin", branch, "||", "true">>,
       <<"cd", "backup_dir", "&&", "(", "git", "checkout", branch, "||",
         "git", "checkout", "-b", branch, ")">>,
       <<"cd", "backup_dir", "&&", "git", "pull", "origin", branch, "--no-edit",
         "||", "true">> >>
SyncSteps == <<"fetch", "checkout", "pull_sync">>

\* tar_command
TarCommand(path) ==
    IF IsFile(path)
    THEN <<"tar", "-czf", "archive_path", "-C", "parent_dir", path>>
    ELSE <<"tar", "-czf", "archive_path", "-C", path, ".">>

\* copy_cmd
CopyCommand(path) ==
    IF IsFile(path)
    THEN <<"cp", path, "temp_copy_dir">>
    ELSE <<"rsync", "-av", "--timeout=300", path, "temp_copy_dir">>

\* tar_fallback_cmd
TarFallbackCommand == <<"tar", "-czf", "archive_path", "-C", "temp_copy_dir", ".">>

\* the archives numbered from 0, as enumerate() counts
ArchiveNameFromZero(index, path) ==
    [prefix |-> IF IsFile(path) THEN "file_" ELSE "dir_",
     number |-> index,
     base   |-> path]

\* archive_name, of the path at 0-based index
ArchiveName(index, path) ==
    [prefix |-> IF IsFile(path) THEN "file_" ELSE "dir_",
     number |-> index + 1,
     base   |-> path]

\* final_commands
FinalCommands(branch, name) ==
    << <<"cd", "backup_dir", "&&", "git", "add", ".">>,
       <<"cd", "backup_dir", "&&", "git", "commit", "-m", "Backup", name>>,
       <<"cd", "backup_dir", "&&", "git", "pull", "origin", branch, "--no-edit">>,
       <<"cd", "backup_dir", "&&", "git", "push", "origin", branch>> >>
FinalSteps == <<"add", "commit", "pull", "push">>

\* what fs::metadata(&archive_path) can give: 0 for Err, else the length
ArchiveSizes == {5}
NoManifest == [written |-> FALSE, total |-> 0, archives |-> <<>>, branch |-> ""]
NewStaging == [staging |-> TRUE, gitignore |-> "absent", manifest |-> NoManifest]
NoStaging == [staging |-> FALSE, gitignore |-> "absent", manifest |-> NoManifest]

\* the locals of a call of perform_backup that has just been made
NewRun(cfg, dsk) ==
    [status |-> "called", pc |-> "start", idx |-> 0, default_branch |-> "",
     path_idx |-> 0, total_size |-> 0, archive_info |-> <<>>, started |-> 0,
     error |-> NoError,
     \* history
     log |-> <<>>, spawned |-> FALSE, pushed |-> FALSE, pushed_branch |-> "",
     lb_writes |-> 0, cfg0 |-> cfg, disk0 |-> dsk,
     gi_synced |-> "none", made |-> <<>>, fb |-> {},
     fail_tries |-> 0, last_nonzero |-> FALSE, remote_main |-> FALSE]

\* no call of perform_backup in progress
NoRun == [NewRun(DefaultConfig, [intact |-> TRUE, last_backup |-> NoStamp])
            EXCEPT !.status = "idle"]

Logged(r, step, ok) == [r EXCEPT !.log = Append(@, [step |-> step, ok |-> ok])]

\* return Err(e)
Fail(r, step, e) ==
    [Logged(r, step, FALSE) EXCEPT !.status = "err", !.error = e]

\* the error of a step dropped, the run going on
TryCarryOn(r, step, ok, e, next) == Logged(next, step, ok)

\* the ? operator on the Result of a step: Err(e) returns it, Ok goes on as next
Try(r, step, ok, e, next) ==
    IF ok THEN Logged(next, step, TRUE) ELSE Fail(r, step, e)

\* execute_command_with_retry(cmd, 3)? in perform_backup: e is what the call
\* returned, and the ? is on it
AfterExec(r, e, step, next) ==
    Try([r EXCEPT !.spawned = TRUE, !.fail_tries = e.fail_attempts,
                  !.last_nonzero = e.nonzero],
        step, e.status = "ok", e.err,
        [next EXCEPT !.spawned = TRUE, !.last_nonzero = e.nonzero])

\* lines 270-301: the precondition checks, moscow_time, create_dir_all(backup_dir)
PB_Start ==
    /\ run.status = "called"
    /\ LET e == PreconditionError(config)
       IN  IF e # NoError
           THEN /\ run' = [run EXCEPT !.status = "err", !.error = e]
                /\ UNCHANGED fs
           ELSE \E made \in BOOLEAN :
                  /\ run' = Try([run EXCEPT !.started = clock], "mkdir_staging", made,
                                Err("io"),
                                [run EXCEPT !.status = "running", !.started = clock,
                                            !.pc = "git_config", !.idx = 1])
                  /\ fs' = IF made THEN NewStaging ELSE fs
    /\ UNCHANGED <<ex, cfgVars, hold, daemonVars, menuVars>>

\* lines 304-319: for cmd in git_configs { execute_command_with_retry(&cmd, 3)? }
PB_GitConfig ==
    /\ run.status = "running" /\ run.pc = "git_config"
    /\ LET cmds == GitConfigs(config)
           cmd  == cmds[run.idx]
       IN  \E e \in ExecCall(cmd, PipelineRetries) :
              run' = AfterExec(run, e, "git_config",
                         IF run.idx < Len(cmds)
                         THEN [run EXCEPT !.idx = @ + 1]
                         ELSE [run EXCEPT !.pc = "probe", !.idx = 0])
    /\ UNCHANGED <<ex, cfgVars, fs, hold, daemonVars, menuVars>>

\* lines 321-327: the probe for the branch; its error is not returned.
\* has_main: whether the remote has a branch main.  The command is git
\* ls-remote without --exit-code, which exits 0 once it has talked to the
\* remote, a head listed or none, and non-zero when it could not: what the
\* call returns does not depend on has_main
PB_Probe ==
    /\ run.status = "running" /\ run.pc = "probe"
    /\ \E has_main \in BOOLEAN :
          \E e \in ExecCall(ProbeCmd, ProbeRetries) :
             run' = Logged([run EXCEPT !.spawned = TRUE, !.pc = "sync", !.idx = 1,
                                       !.default_branch = BranchOf(e.status = "ok"),
                                       !.remote_main = has_main,
                                       !.fail_tries = e.fail_attempts],
                           "probe", e.status = "ok")
    /\ UNCHANGED <<ex, cfgVars, fs, hold, daemonVars, menuVars>>

\* lines 329-339: for cmd in sync_commands { execute_command_with_retry(&cmd, 3)? };
\* the checkout and the pull may bring the remote's .gitignore
PB_Sync ==
    /\ run.status = "running" /\ run.pc = "sync"
    /\ LET cmds == SyncCommands(run.default_branch)
           cmd  == cmds[run.idx]
       IN  \E e \in ExecCall(cmd, PipelineRetries) :
              /\ run' = AfterExec(run, e, SyncSteps[run.idx],
                            IF run.idx < Len(cmds)
                            THEN [run EXCEPT !.idx = @ + 1]
                            ELSE [run EXCEPT !.pc = "gitignore", !.idx = 0])
              /\ IF run.idx = Len(cmds) /\ e.status = "ok"
                 THEN \E brought \in BOOLEAN :
                         fs' = IF brought THEN [fs EXCEPT !.gitignore = "remote"]
                               ELSE fs
                 ELSE UNCHANGED fs
    /\ UNCHANGED <<ex, cfgVars, hold, daemonVars, menuVars>>

\* .gitignore written whether it is there or not
NeedsGitignoreAlways(g) == TRUE

\* !std::path::Path::new(&gitignore_path).exists()
NeedsGitignore(g) == g = "absent"

\* lines 341-354: .gitignore written if there is none, then
\* create_dir_all(current_backup_dir)
PB_Gitignore ==
    /\ run.status = "running" /\ run.pc = "gitignore"
    /\ \E wrote \in (IF NeedsGitignore(fs.gitignore) THEN BOOLEAN ELSE {TRUE}) :
          LET absent == NeedsGitignore(fs.gitignore)
              r0 == [run EXCEPT !.gi_synced = fs.gitignore]
              r1 == IF absent
                    THEN Try(r0, "gitignore", wrote, Err("io"), r0)
                    ELSE r0
          IN  IF r1.status = "err"
              THEN run' = r1 /\ UNCHANGED fs
              ELSE \E made \in BOOLEAN :
                   /\ run' = Try(r1, "mkdir_run", made, Err("io"),
                                 [r1 EXCEPT !.pc = "tar", !.path_idx = 1])
                   /\ fs' = IF absent THEN [fs EXCEPT !.gitignore = "default"] ELSE fs
    /\ UNCHANGED <<ex, cfgVars, hold, daemonVars, menuVars>>

\* the end of one pass of the loop over config.backup_paths
NextPath(r) ==
    IF r.path_idx < Len(config.backup_paths)
    THEN [r EXCEPT !.path_idx = @ + 1, !.pc = "tar"]
    ELSE [r EXCEPT !.pc = "manifest"]

\* total_size += size; archive_info.push(..), of the path at r.path_idx
Recorded(r, size) ==
    [r EXCEPT !.total_size = @ + size,
              !.archive_info = Append(@,
                  [name |-> ArchiveName(r.path_idx - 1, config.backup_paths[r.path_idx]),
                   size |-> size])]

\* the indices i whose holding area /tmp/temp_copy_<i> exists
HeldIdx(h) == {a.idx : a \in h}

\* create_dir_all(&temp_copy_dir) at index i: a directory that is there
\* already is kept with what it has, which is old for the use that begins
Opened(h, i) ==
    {a \in h : a.idx # i}
    \cup {[idx |-> i, old |-> \E a \in h : a.idx = i /\ (a.old \/ a.new),
           new |-> FALSE]}

\* cp or rsync -av into the holding area at index i: the copy of the target
\* is added to what is there
CopiedInto(h, i) ==
    {IF a.idx = i THEN [a EXCEPT !.new = TRUE] ELSE a : a \in h}

\* remove_dir_all(&temp_copy_dir) at index i
Removed(h, i) == {a \in h : a.idx # i}

\* the fallback is entered for the path at r.path_idx (history)
InFallback(r) == [r EXCEPT !.fb = @ \cup {r.path_idx - 1}]

\* tar has written the archive of the path at r.path_idx (history)
Archived(r) ==
    [r EXCEPT !.made = Append(@,
                  ArchiveName(r.path_idx - 1, config.backup_paths[r.path_idx]))]

\* lines 362-401: the direct archive of one path; Ok records its size (or
\* "size unknown"), Err starts the fallback with create_dir_all(temp_copy_dir)
PB_Tar ==
    /\ run.status = "running" /\ run.pc = "tar"
    /\ LET path == config.backup_paths[run.path_idx]
           cmd  == TarCommand(path)
           r1   == [run EXCEPT !.spawned = TRUE]
       IN  \E e \in ExecCall(cmd, PipelineRetries) :
              IF e.status = "ok"
              THEN \E size \in ArchiveSizes \cup {0} :
                   /\ run' = Logged(NextPath(Recorded(Archived(r1), size)), "tar", TRUE)
                   /\ UNCHANGED hold
              ELSE \E made \in BOOLEAN :
                   /\ run' = Try(Logged(InFallback(r1), "tar", FALSE), "fb_mkdir", made,
                                 Err("io"),
                                 [Logged(InFallback(r1), "tar", FALSE)
                                    EXCEPT !.pc = "fb_copy"])
                   /\ hold' = IF made THEN Opened(hold, run.path_idx - 1) ELSE hold
    /\ UNCHANGED <<ex, cfgVars, fs, daemonVars, menuVars>>

\* lines 402-408: execute_command_with_retry(&copy_cmd, 3)?; a copy that
\* failed has left nothing or a part of the target in the holding area
PB_FbCopy ==
    /\ run.status = "running" /\ run.pc = "fb_copy"
    /\ LET cmd == CopyCommand(config.backup_paths[run.path_idx])
       IN  \E e \in ExecCall(cmd, PipelineRetries) :
              /\ run' = AfterExec(run, e, "fb_copy", [run EXCEPT !.pc = "fb_tar"])
              /\ IF e.status = "ok"
                 THEN hold' = CopiedInto(hold, run.path_idx - 1)
                 ELSE \E part \in BOOLEAN :
                         hold' = IF part THEN CopiedInto(hold, run.path_idx - 1)
                                 ELSE hold
    /\ UNCHANGED <<ex, cfgVars, fs, daemonVars, menuVars>>

\* lines 410-422: execute_command_with_retry(&tar_fallback_cmd, 3)?, then
\* remove_dir_all(temp_copy_dir)?, then the size if fs::metadata gives it
PB_FbTar ==
    /\ run.status = "running" /\ run.pc = "fb_tar"
    /\ \E e \in ExecCall(TarFallbackCommand, PipelineRetries) :
          LET r1 == AfterExec(run, e, "fb_tar", Archived(run))
          IN  IF r1.status = "err"
              THEN run' = r1 /\ UNCHANGED hold
              ELSE \E removed \in BOOLEAN :
                   \E size \in (IF removed THEN ArchiveSizes \cup {0} ELSE {0}) :
                   /\ run' = Try(r1, "fb_rm", removed, Err("io"),
                                 NextPath(IF size = 0 THEN r1 ELSE Recorded(r1, size)))
                   /\ hold' = IF removed THEN Removed(hold, run.path_idx - 1) ELSE hold
    /\ UNCHANGED <<ex, cfgVars, fs, daemonVars, menuVars>>

\* lines 426-463: fs::write(&info_path, backup_info)?
PB_Manifest ==
    /\ run.status = "running" /\ run.pc = "manifest"
    /\ \E wrote \in BOOLEAN :
          /\ run' = Try(run, "manifest", wrote, Err("io"),
                        [run EXCEPT !.pc = "publish", !.idx = 1])
          /\ fs' = IF wrote
                   THEN [fs EXCEPT !.manifest =
                            [written |-> TRUE, total |-> run.total_size,
                             archives |-> run.archive_info,
                             branch |-> run.default_branch]]
                   ELSE fs
    /\ UNCHANGED <<ex, cfgVars, hold, daemonVars, menuVars>>

\* lines 468-483: for cmd in final_commands { execute_command_with_retry(&cmd, 3)? };
\* a git push whose process exits 0 has put the commit on the remote branch
PB_Publish ==
    /\ run.status = "running" /\ run.pc = "publish"
    /\ LET cmds == FinalCommands(run.default_branch, config.backup_name)
           cmd  == cmds[run.idx]
           step == FinalSteps[run.idx]
           r1   == IF run.idx < Len(cmds)
                   THEN [run EXCEPT !.idx = @ + 1]
                   ELSE [run EXCEPT !.pc = "cleanup", !.idx = 0]
       IN  \E e \in ExecCall(cmd, PipelineRetries) :
              LET landed == step = "push" /\ e.exited0
                  mark(r) == IF landed
                             THEN [r EXCEPT !.pushed = TRUE,
                                            !.pushed_branch = cmd[Len(cmd)]]
                             ELSE r
              IN  run' = AfterExec(mark(run), e, step, mark(r1))
    /\ UNCHANGED <<ex, cfgVars, fs, hold, daemonVars, menuVars>>

\* config.save(): the file written whole, or on an error left as it was or
\* left cut short
SaveOutcomes == {"ok", "unchanged", "partial"}
Saved(cfg, dsk, how) ==
    IF how = "ok" THEN [intact |-> TRUE, last_backup |-> cfg.last_backup]
    ELSE IF how = "partial" THEN [intact |-> FALSE, last_backup |-> NoStamp]
    ELSE dsk

\* lines 485-498: remove_dir_all(backup_dir)?; config.last_backup = Some(..);
\* config.save()?; Ok(())
PB_Cleanup ==
    /\ run.status = "running" /\ run.pc = "cleanup"
    /\ \E removed \in BOOLEAN :
          LET r1 == Try(run, "cleanup", removed, Err("io"), run)
          IN  IF r1.status = "err"
              THEN run' = r1 /\ UNCHANGED <<fs, cfgVars>>
              ELSE \E how \in SaveOutcomes :
                   /\ fs' = IF removed THEN NoStaging ELSE fs
                   /\ config' = [config EXCEPT !.last_backup = Stamp(run.started)]
                   /\ disk' = Saved(config', disk, how)
                   /\ run' = Try([r1 EXCEPT !.lb_writes = @ + 1], "save", how = "ok",
                                 Err("io"),
                                 [r1 EXCEPT !.lb_writes = @ + 1, !.status = "ok",
                                            !.pc = "done"])
    /\ UNCHANGED <<ex, hold, daemonVars, menuVars>>

(***************************************************************************)
(* run_daemon_mode.  Nothing reads the clock between the poll that fires   *)
(* and the poll after the two sleeps, so the time perform_backup takes is  *)
(* added with the sleeps.  The wall clock never goes back.                 *)
(***************************************************************************)
\* systemd.rs lines 27-36: the days of the timer's OnCalendar expression
Calendar(cfg) ==
    LET frequency == IF cfg.backup_frequency = None THEN "Daily"
                     ELSE cfg.backup_frequency
    IN  CASE frequency = "Daily" -> "*-*-*"
          [] frequency = "Weekly" -> "Mon *-*-*"
          [] frequency = "Monthly" -> "*-*-1"

\* the test with the frequency taken into it: a weekly or monthly schedule
\* fires on its first day only
ShouldFireOnCalendar(cfg, now, last_day) ==
    /\ cfg.backup_time.some
    /\ ParsesAsTime(cfg.backup_time)
    /\ Hour(now) = cfg.backup_time.hh
    /\ Minute(now) = cfg.backup_time.mm
    /\ Ordinal(now) # last_day
    /\ (Calendar(cfg) = "*-*-*" \/ Day(now) = 1)

\* the test of lines 512-521
ShouldFire(cfg, now, last_day) ==
    /\ cfg.backup_time.some
    /\ ParsesAsTime(cfg.backup_time)
    /\ Hour(now) = cfg.backup_time.hh
    /\ Minute(now) = cfg.backup_time.mm
    /\ Ordinal(now) # last_day

\* the sleep of 60 seconds left out
SleepAfterFireShort(took) == took + PollSleepTicks

\* from the poll that fired to the next poll: the run, sleep(60 s), sleep(30 s)
SleepAfterFire(took) == took + FireSleepTicks + PollSleepTicks

\* the day recorded whatever the result
LastDayAfterAlways(status, current_day, last_day) == current_day

\* last_backup_day = current_day, in the Ok arm only
LastDayAfter(status, current_day, last_day) ==
    IF status = "ok" THEN current_day ELSE last_day

\* the result taken with ?, as main takes it: an Err leaves the function
DaemonAfterPropagate(status) == IF status = "err" THEN "exit" ELSE "poll"

\* where run_daemon_mode is after the match of lines 524-533: neither arm
\* returns, the loop goes on
DaemonAfter(status) == "poll"

\* one pass of the loop that does not fire: sleep(30 s)
D_Idle ==
    /\ d_pc = "poll"
    /\ ~ShouldFire(config, clock, last_backup_day)
    /\ clock + PollSleepTicks <= MaxClock
    /\ clock' = clock + PollSleepTicks
    /\ slept' = PollSleepTicks
    /\ UNCHANGED <<ex, cfgVars, pipeVars, menuVars, last_backup_day, d_pc,
                   fire_day, fires_that_day, ok_day>>

\* one pass of the loop that fires: the call of perform_backup(config)
D_Fire ==
    /\ d_pc = "poll"
    /\ ShouldFire(config, clock, last_backup_day)
    /\ d_pc' = "backup"
    /\ run' = NewRun(config, disk)
    /\ fire_day' = Day(clock)
    /\ fires_that_day' = IF fire_day = Day(clock) THEN fires_that_day + 1 ELSE 1
    \* backup_dir is named after the time of the call: a directory not yet there
    /\ fs' = NoStaging
    /\ UNCHANGED <<ex, cfgVars, hold, menuVars, clock, last_backup_day, ok_day,
                   slept>>

\* lines 524-537 and 545: the match on the result, sleep(60 s), sleep(30 s)
D_AfterBackup ==
    /\ d_pc = "backup"
    /\ run.status \in {"ok", "err"}
    /\ \E took \in 0..MaxRunTicks :
          /\ clock + SleepAfterFire(took) <= MaxClock
          /\ clock' = clock + SleepAfterFire(took)
          /\ slept' = SleepAfterFire(took) - took
    /\ last_backup_day' = LastDayAfter(run.status, Ordinal(clock), last_backup_day)
    /\ ok_day' = IF run.status = "ok" THEN Day(clock) ELSE ok_day
    /\ d_pc' = DaemonAfter(run.status)
    /\ run' = NoRun
    /\ UNCHANGED <<ex, cfgVars, fs, hold, menuVars, fire_day, fires_that_day>>

PipeInit ==
    /\ config \in Configs
    /\ disk = [intact |-> TRUE, last_backup |-> config.last_backup]
    /\ run = NoRun
    /\ fs = NoStaging
    /\ hold = {}

\* the lists of backup_paths the daemon is started with: none, a directory,
\* a file, a file and a directory (every list is run from the menu)
DaemonPathLists == {<<>>, <<"d">>, <<"f">>, <<"f", "d">>}

DaemonInit ==
    /\ config.backup_paths \in DaemonPathLists
    /\ clock = 0
    /\ last_backup_day = 0
    /\ d_pc = "poll"
    /\ fire_day = 0
    /\ fires_that_day = 0
    /\ ok_day = 0
    /\ slept = 0

\* main has gone into run_daemon_mode (line 562): there is no menu
MenuOff == m_pc = "off" /\ m_runs = 0 /\ exists = Paths

Init == ex = ExecIdle /\ PipeInit /\ DaemonInit /\ MenuOff

Next ==
    \/ D_Idle
    \/ D_Fire
    \/ D_AfterBackup
    \/ PB_Start
    \/ PB_GitConfig
    \/ PB_Probe
    \/ PB_Sync
    \/ PB_Gitignore
    \/ PB_Tar
    \/ PB_FbCopy
    \/ PB_FbTar
    \/ PB_Manifest
    \/ PB_Publish
    \/ PB_Cleanup

Spec == Init /\ [][Next]_vars

(***************************************************************************)
(* The executor on its own: any of the commands, any max_retries up to the *)
(* bound, any outcome for each attempt.                                    *)
(***************************************************************************)
HarnessCall ==
    /\ ex.status # "running"
    /\ \E cmd \in HarnessCmds, m \in 0..MaxAttempts :
          \E o \in ProcOutcomes(cmd) : ex' = ExecStep(ex, cmd, m, o)
    /\ UNCHANGED <<cfgVars, pipeVars, daemonVars, menuVars>>

HarnessRetry ==
    /\ ex.status = "running"
    /\ \E o \in ProcOutcomes(ex.cmd) : ex' = ExecStep(ex, ex.cmd, ex.max, o)
    /\ UNCHANGED <<cfgVars, pipeVars, daemonVars, menuVars>>

InitExec ==
    /\ ex = ExecIdle
    /\ config = DefaultConfig
    /\ disk = [intact |-> TRUE, last_backup |-> NoStamp]
    /\ run = NoRun
    /\ fs = NoStaging
    /\ hold = {}
    /\ DaemonInit
    /\ MenuOff

NextExec == HarnessCall \/ HarnessRetry
SpecExec == InitExec /\ [][NextExec]_vars

(***************************************************************************)
(* main without --daemon: the menu loop of lines 573-610, with the choices *)
(* "1" (perform_backup) and "6" (break).                                   *)
(***************************************************************************)
\* "1" => perform_backup(&mut config)?  (line 602): an Err leaves main
MenuAfter(status) == IF status = "err" THEN "exit_err" ELSE "menu"

\* choice "1": the call of perform_backup(&mut config)
M_Backup ==
    /\ m_pc = "menu"
    /\ m_runs < MaxMenuRuns
    /\ m_pc' = "backup"
    /\ m_runs' = m_runs + 1
    /\ run' = NewRun(config, disk)
    \* backup_dir is named after the time of the call: a directory not yet there
    /\ fs' = NoStaging
    /\ UNCHANGED <<ex, cfgVars, hold, daemonVars, exists>>

\* the ? on what perform_backup returned; the run has taken some time
M_AfterBackup ==
    /\ m_pc = "backup"
    /\ run.status \in {"ok", "err"}
    /\ m_pc' = MenuAfter(run.status)
    /\ \E took \in 0..MaxRunTicks :
          /\ clock + took <= MaxClock
          /\ clock' = clock + took
    /\ run' = NoRun
    /\ UNCHANGED <<ex, cfgVars, fs, hold, m_runs, last_backup_day, d_pc,
                   fire_day, fires_that_day, ok_day, slept, exists>>

\* choice "6": break, and main returns Ok(())
M_Exit ==
    /\ m_pc = "menu"
    /\ m_pc' = "exit_ok"
    /\ UNCHANGED <<ex, cfgVars, pipeVars, daemonVars, m_runs, exists>>

\* the menu is shown once the configuration has a repository (lines 565-571)
InitMenu ==
    /\ ex = ExecIdle
    /\ PipeInit
    /\ config.gitea_repo # None
    /\ clock = 0
    /\ last_backup_day = 0
    /\ d_pc = "off"
    /\ fire_day = 0
    /\ fires_that_day = 0
    /\ ok_day = 0
    /\ slept = 0
    /\ m_pc = "menu"
    /\ m_runs = 0
    /\ exists = Paths

NextMenu ==
    \/ M_Backup
    \/ M_AfterBackup
    \/ M_Exit
    \/ PB_Start
    \/ PB_GitConfig
    \/ PB_Probe
    \/ PB_Sync
    \/ PB_Gitignore
    \/ PB_Tar
    \/ PB_FbCopy
    \/ PB_FbTar
    \/ PB_Manifest
    \/ PB_Publish
    \/ PB_Cleanup

SpecMenu == InitMenu /\ [][NextMenu]_vars

(***************************************************************************)
(* Claims about the executor, checked under SpecExec.                      *)
(***************************************************************************)

\* C4: a command that is no pull and whose process has exited 0 on no
\* attempt so far is, with max_retries >= 1, either still in the loop with
\* one 5-second delay made after each attempt, or has returned an error
\* after exactly max_retries invocations and max_retries - 1 delays.
C4_ExhaustsAllAttempts ==
    (/\ ex.status # "idle"
     /\ ex.max >= 1
     /\ ~ContainsGitPull(ex.cmd)
     /\ ex.first_ok = 0)
    => \/ /\ ex.status = "running"
          /\ ex.attempt < ex.max
          /\ ex.invocations = ex.attempt
          /\ ex.delays = ex.attempt
       \/ /\ ex.status = "err"
          /\ ex.err # NoError
          /\ ex.invocations = ex.max
          /\ ex.delays = ex.max - 1

C4_Witness ==
    /\ ex.status = "err"
    /\ ~ContainsGitPull(ex.cmd)
    /\ ex.max = 3
    /\ ex.invocations = 3
    /\ ex.delays = 2
    /\ ex.spawn_fails = 1

\* the command has the word pull in it
NamesPull(cmd) == \E i \in 1..Len(cmd) : cmd[i] = "pull"

\* C5 as stated: a pull command returns success after exactly one attempt,
\* whatever max_retries >= 1 is.
C5_PullOneAttempt ==
    (ex.status # "idle" /\ ex.max >= 1 /\ NamesPull(ex.cmd))
    => (ex.status = "ok" /\ ex.invocations = 1)

\* C5 amended: a pull command returns success on the first attempt whose
\* process spawns, whatever its exit status; the attempts before it are
\* the ones that failed to spawn, and only max_retries spawn failures
\* return an error.
C5_PullFirstSpawned ==
    (ex.status # "idle" /\ ex.max >= 1 /\ NamesPull(ex.cmd))
    => \/ /\ ex.status = "ok"
          /\ ex.last_o.kind = "exit"
          /\ ex.invocations = ex.spawn_fails + 1
       \/ /\ ex.status = "running"
          /\ ex.invocations = ex.spawn_fails
          /\ ex.invocations < ex.max
       \/ /\ ex.status = "err"
          /\ ex.invocations = ex.spawn_fails
          /\ ex.invocations = ex.max

C5_Witness ==
    /\ NamesPull(ex.cmd)
    /\ ex.status = "ok"
    /\ ex.max = 3
    /\ ex.invocations = 1
    /\ ex.last_o.kind = "exit"
    /\ ~ex.last_o.ok

\* C6: once an attempt's process has exited 0, at attempt k, the call has
\* returned success with exactly k invocations and k - 1 delays; and every
\* successful return comes right after its last invocation.
C6_StopsOnSuccess ==
    /\ ex.first_ok > 0 =>
          /\ ex.status = "ok"
          /\ ex.first_ok <= ex.max
          /\ ex.invocations = ex.first_ok
          /\ ex.delays = ex.first_ok - 1
    /\ ex.status = "ok" =>
          /\ ex.invocations = ex.attempt
          /\ ex.delays = ex.attempt - 1

C6_Witness ==
    /\ ex.status = "ok"
    /\ ex.first_ok = 2
    /\ ex.max = 4
    /\ ex.invocations = 2
    /\ ex.delays = 1

\* C7 as stated: the error returned after the last attempt holds the
\* stderr bytes (or the spawn error) of that attempt unchanged.
C7_LastErrorVerbatim ==
    (ex.status = "err" /\ ex.max >= 1)
    => (ex.err.prefix = "exec" /\ ex.err.text = ex.last_o.err)

\* C7 amended: the error returned after the last attempt is made from the
\* last attempt, never an earlier one: it holds that attempt's spawn error
\* unchanged, or that attempt's stderr as String::from_utf8_lossy decodes
\* it: unchanged where it is valid UTF-8, U+FFFD where it is not.
C7_LastErrorLossy ==
    (ex.status = "err" /\ ex.max >= 1)
    => /\ ex.err.prefix = "exec"
       /\ Len(ex.err.text) = Len(ex.last_o.err)
       /\ \A i \in 1..Len(ex.last_o.err) :
             ex.err.text[i] =
                IF ex.last_o.kind = "exit" /\ ex.last_o.err[i] >= AsciiLimit
                THEN ReplacementChar
                ELSE ex.last_o.err[i]

C7_Witness ==
    /\ ex.status = "err"
    /\ ex.max = 3
    /\ ex.errs_differ
    /\ ex.last_o.kind = "exit"
    /\ ex.last_o.err = <<97>>
    /\ ex.err.text = <<97>>

(***************************************************************************)
(* Claims about perform_backup and the daemon, checked under Spec.         *)
(***************************************************************************)
LastStep(r) == r.log[Len(r.log)]

\* the phase a step belongs to, in the order of the source
PhaseOf(step) ==
    CASE step \in {"mkdir_staging", "git_config"} -> 1
      [] step = "probe" -> 2
      [] step \in {"fetch", "checkout", "pull_sync"} -> 3
      [] step \in {"gitignore", "mkdir_run"} -> 4
      [] step \in {"tar", "fb_mkdir", "fb_copy", "fb_tar", "fb_rm"} -> 5
      [] step = "manifest" -> 6
      [] step = "add" -> 7
      [] step = "commit" -> 8
      [] step = "pull" -> 9
      [] step = "push" -> 10
      [] step \in {"cleanup", "save"} -> 11

\* the phases made of more than one step
ManyStepPhases == {1, 3, 4, 5, 11}

\* the steps whose error perform_backup handles itself: the probe (the
\* branch falls back to master) and the direct tar (the fallback copy)
Tolerated == {"probe", "tar"}

\* a required field of the configuration is absent
Unconfigured(cfg) ==
    \/ cfg.backup_paths = <<>>
    \/ cfg.gitea_url = None
    \/ cfg.gitea_username = None
    \/ cfg.gitea_password = None
    \/ cfg.gitea_repo = None

\* C1 as stated: whenever perform_backup has returned an error, no git push
\* of that run has completed successfully.
C1_FailedReturnNoPush ==
    run.status = "err" => ~run.pushed

\* C2: whenever perform_backup has returned Ok, the last steps of the run
\* were, each one succeeding, the manifest written, then add, commit, pull
\* and push in that order, then the removal of the staging directory and
\* the save; the push has completed on the resolved branch; and the
\* staging directory is not there any more.
C2_SuccessMeansPublished ==
    run.status = "ok" =>
       /\ Len(run.log) >= 7
       /\ LET n == Len(run.log)
          IN  /\ [i \in 1..7 |-> run.log[n - 7 + i].step]
                   = <<"manifest", "add", "commit", "pull", "push", "cleanup", "save">>
              /\ \A i \in 1..7 : run.log[n - 7 + i].ok
              /\ \A i \in 1..(n - 7) :
                    run.log[i].step \notin {"manifest", "add", "commit", "pull", "push"}
       /\ run.pushed
       /\ run.default_branch \in {"main", "master"}
       /\ run.pushed_branch = run.default_branch
       /\ ~fs.staging
       /\ ~fs.manifest.written

C2_Witness ==
    /\ run.status = "ok"
    /\ run.default_branch = "master"
    /\ Len(run.cfg0.backup_paths) = 2
    /\ \E i \in 1..Len(run.log) : run.log[i].step = "fb_tar"

\* C3: the steps of a run are made phase by phase in the order of the
\* source, no phase left out and no single-step phase made twice; a failed
\* step other than the probe and the direct tar is the last step of the
\* run and perform_backup has returned with an error; so commit and push
\* come after no such failure.
C3_StrictOrder ==
    /\ run.log # <<>> => PhaseOf(run.log[1].step) = 1
    /\ \A i \in 1..(Len(run.log) - 1) :
          LET a == PhaseOf(run.log[i].step)
              b == PhaseOf(run.log[i + 1].step)
          IN  /\ a <= b
              /\ b <= a + 1
              /\ a = b => a \in ManyStepPhases
    /\ \A i \in 1..Len(run.log) :
          (~run.log[i].ok /\ run.log[i].step \notin Tolerated)
          => /\ i = Len(run.log)
             /\ run.status = "err"
             /\ run.error # NoError
    /\ (run.status = "err" /\ run.log # <<>>) => ~LastStep(run).ok
    /\ \A i \in 1..Len(run.log) :
          run.log[i].step \in {"commit", "push"}
          => \A j \in 1..(i - 1) : run.log[j].ok \/ run.log[j].step \in Tolerated

C3_Witness ==
    /\ run.status = "err"
    /\ run.log # <<>>
    /\ LastStep(run).step = "checkout"
    /\ run.error.prefix = "exec"
    /\ \E i \in 1..Len(run.log) : run.log[i].step = "probe" /\ ~run.log[i].ok

\* C8: a call of perform_backup with no path configured, or with the URL,
\* the username, the password or the repository absent, has returned an
\* error of that precondition with no process spawned, no step made, no
\* staging directory made, and the configuration in memory and on disk as
\* it was before the call.
C8_PreconditionFailsFast ==
    (run.status \notin {"idle", "called"} /\ Unconfigured(run.cfg0))
    => /\ run.status = "err"
       /\ run.error \in {Err("no_paths"), Err("no_username"), Err("no_password"),
                         Err("no_url"), Err("no_repo")}
       /\ ~run.spawned
       /\ run.log = <<>>
       /\ fs = NoStaging
       /\ hold = {}
       /\ config = run.cfg0
       /\ disk = run.disk0

C8_Witness ==
    /\ run.status = "err"
    /\ run.cfg0.backup_paths # <<>>
    /\ run.cfg0.gitea_password = None
    /\ run.error = Err("no_password")

\* C9 as stated: whenever perform_backup has returned an error,
\* config.last_backup in memory and on disk is what it was before the
\* call, and a run that has returned Ok has written it exactly once.
C9_MarkerOnlyOnSuccess ==
    /\ run.status = "err" =>
          /\ config.last_backup = run.cfg0.last_backup
          /\ disk.last_backup = run.disk0.last_backup
    /\ run.status = "ok" => run.lb_writes = 1

\* C10: the daemon fires at most once on a calendar day; it fires only at
\* the configured hour and minute on a day whose ordinal is not
\* last_backup_day; and after a run that returned Ok, last_backup_day is
\* the ordinal of the day of that run, so no later poll of that day fires.
C10_OncePerDay ==
    /\ fires_that_day <= 1
    /\ d_pc = "backup" =>
          /\ ShouldFire(config, clock, last_backup_day)
          /\ fire_day = Day(clock)
    /\ (d_pc = "poll" /\ ok_day > 0) =>
          /\ last_backup_day = ((ok_day - 1) % DaysPerYear) + 1
          /\ ok_day = Day(clock) => ~ShouldFire(config, clock, last_backup_day)

C10_Witness ==
    /\ d_pc = "poll"
    /\ ok_day = Day(clock)
    /\ fire_day = Day(clock)
    /\ fires_that_day = 1
    /\ last_backup_day = Ordinal(clock)
    /\ clock % TicksPerDay > 4

\* C11: run_daemon_mode is never left; and the step it takes when
\* perform_backup has returned an error brings it back to polling with
\* last_backup_day as it was.
C11_FailureNotFatal ==
    /\ [](d_pc \in {"poll", "backup"})
    /\ [][(d_pc = "backup" /\ run.status = "err")
            => (d_pc' = "poll" /\ last_backup_day' = last_backup_day)]_vars

C11_Witness ==
    /\ d_pc = "poll"
    /\ fire_day > 0
    /\ ok_day = 0
    /\ last_backup_day = 0
    /\ Day(clock) > fire_day

\* the latest firing was on the calendar day of now and its run did not
\* return Ok
FailedToday(now) == fire_day = Day(now) /\ ok_day # fire_day

\* C12: at every poll made on the day of a run that failed, however soon
\* after it, the test of the loop is false: the pipeline is not invoked
\* again that day.
C12_NoRetrySameDay ==
    (d_pc = "poll" /\ FailedToday(clock))
    => /\ ~ShouldFire(config, clock, last_backup_day)
       /\ fires_that_day = 1

C12_Witness ==
    /\ d_pc = "poll"
    /\ FailedToday(clock)
    /\ config.backup_time = TimeA
    /\ clock % TicksPerDay = TicksPerMinute + FireSleepTicks + PollSleepTicks
    /\ Ordinal(clock) # last_backup_day

(***************************************************************************)
(* Claims about the menu loop, checked under SpecMenu.                     *)
(***************************************************************************)

\* C13 as stated: the step main takes when the perform_backup called from
\* the menu has returned an error brings it back to the menu.
C13_MenuSurvivesError ==
    [][(m_pc = "backup" /\ run.status = "err") => m_pc' = "menu"]_vars

(***************************************************************************)
(* More claims about perform_backup, checked under Spec.                   *)
(***************************************************************************)
StepsOf(r) == {r.log[i].step : i \in 1..Len(r.log)}

\* C14: once the .gitignore step of a run is behind, a .gitignore that was
\* there after the sync has the contents it had then and no write of it
\* was made, one that was not there has the default contents by one
\* write; so the file is there, and the step made again would not write.
C14_GitignoreOnlyWhenAbsent ==
    ("mkdir_run" \in StepsOf(run) /\ fs.staging)
    => /\ run.gi_synced \in {"absent", "remote"}
       /\ fs.gitignore = IF run.gi_synced = "absent" THEN "default" ELSE run.gi_synced
       /\ ("gitignore" \in StepsOf(run)) <=> (run.gi_synced = "absent")
       /\ Cardinality({i \in 1..Len(run.log) : run.log[i].step = "gitignore"}) <= 1
       /\ fs.gitignore # "absent"

C14_Witness ==
    /\ "mkdir_run" \in StepsOf(run)
    /\ fs.staging
    /\ run.gi_synced = "remote"
    /\ fs.gitignore = "remote"
    /\ "manifest" \in StepsOf(run)

\* the archival loop of the run is over
ArchivalDone(r) == r.pc \in {"manifest", "publish", "cleanup", "done"}

\* C15: the archives a run has written are those of the first paths of
\* the list, in the order of the list, one for each: the i-th has the
\* number i, the path's name and the prefix file_ for a file, dir_
\* otherwise; no two of them have the same name; and once the loop over
\* the paths is over there is one for every path.
C15_OneArchivePerTarget ==
    run.status \in {"running", "ok", "err"} =>
       /\ Len(run.made) <= Len(run.cfg0.backup_paths)
       /\ \A i \in 1..Len(run.made) :
             /\ run.made[i].number = i
             /\ run.made[i].base = run.cfg0.backup_paths[i]
             /\ run.made[i].prefix =
                   IF IsFile(run.cfg0.backup_paths[i]) THEN "file_" ELSE "dir_"
       /\ \A i, j \in 1..Len(run.made) : i # j => run.made[i] # run.made[j]
       /\ ArchivalDone(run) => Len(run.made) = Len(run.cfg0.backup_paths)
       /\ \A k \in 1..Len(run.archive_info) :
             \E i \in 1..Len(run.made) : run.archive_info[k].name = run.made[i]

C15_Witness ==
    /\ run.status = "running"
    /\ run.pc = "publish"
    /\ run.cfg0.backup_paths = <<"f", "d">>
    /\ Len(run.made) = 2
    /\ run.made[1].prefix = "file_" /\ run.made[1].number = 1
    /\ run.made[2].prefix = "dir_" /\ run.made[2].number = 2
    /\ "fb_tar" \in StepsOf(run)

\* the run is between the creation of a holding area and its removal
InsideFallback(r) == r.status = "running" /\ r.pc \in {"fb_copy", "fb_tar"}

\* C16 as stated: a direct tar that failed is followed by the fallback; a
\* run that is not inside the fallback, having left it by going on or by
\* returning, has left no holding area of its own behind; and every path
\* whose fallback went through has its archive in archive_info with its
\* size, which is in the total.
C16_FallbackCleansUp ==
    run.status \in {"running", "ok", "err"} =>
       /\ \A i \in 1..Len(run.log) :
             (run.log[i].step = "tar" /\ ~run.log[i].ok)
             => (i < Len(run.log) /\ run.log[i + 1].step = "fb_mkdir")
       /\ ~InsideFallback(run) => run.fb \cap HeldIdx(hold) = {}
       /\ \A i \in run.fb :
             (i + 1 <= Len(run.made) /\ i + 1 < run.path_idx + (IF ArchivalDone(run) THEN 1 ELSE 0))
             => \E k \in 1..Len(run.archive_info) :
                   /\ run.archive_info[k].name = run.made[i + 1]
                   /\ run.archive_info[k].size > 0
                   /\ run.total_size >= run.archive_info[k].size


\* the steps of the publish phase
PublishSteps == {"add", "commit", "pull", "push"}

\* C17 as stated: a publish step whose process exits non-zero on every
\* attempt made, the pull included, is the failed last step of a run that
\* has returned an error.
C17_AnyPublishFailureAborts ==
    (/\ run.status \in {"running", "ok", "err"}
     /\ Len(run.log) > 0
     /\ LastStep(run).step \in PublishSteps
     /\ run.last_nonzero)
    => /\ ~LastStep(run).ok
       /\ run.status = "err"

\* C17, amended: a publish step that failed is the last step of a run that
\* has returned an error, after 3 attempts; when it is the stage, the commit
\* or the pull no push was invoked; a failed pull is one whose process did
\* not spawn, 3 times; and a pull that went through, non-zero exit or not, is
\* followed by the push.
C17_PublishFailureAborts ==
    /\ \A i \in 1..Len(run.log) :
          (run.log[i].step \in PublishSteps /\ ~run.log[i].ok)
          => /\ i = Len(run.log)
             /\ run.status = "err"
             /\ run.fail_tries = PipelineRetries
             /\ run.log[i].step # "push"
                => (~run.pushed /\ "push" \notin StepsOf(run))
             /\ run.log[i].step = "pull" => run.error.text \in SpawnErrs
    /\ \A i \in 1..(Len(run.log) - 1) :
          (run.log[i].step = "pull" /\ run.log[i].ok)
          => run.log[i + 1].step = "push"

\* a commit failed on all 3 attempts, in a run whose stage went through
C17_Witness ==
    /\ run.status = "err"
    /\ Len(run.log) >= 2
    /\ LastStep(run) = [step |-> "commit", ok |-> FALSE]
    /\ run.log[Len(run.log) - 1] = [step |-> "add", ok |-> TRUE]
    /\ run.fail_tries = PipelineRetries
    /\ ~run.pushed


\* the branch named by a command of the sync and publish phases
BranchIn(cmd) ==
    IF \E i \in 1..(Len(cmd) - 1) : cmd[i] = "origin"
    THEN cmd[(CHOOSE i \in 1..(Len(cmd) - 1) : cmd[i] = "origin") + 1]
    ELSE cmd[Len(cmd) - 1]

\* C18 as stated: once the probe has run, the branch is main if the remote
\* has a branch main and master otherwise; a failed probe was tried at most
\* twice and the run goes on; and the commands of the sync phase, the pull
\* and the push of the publish phase, and the manifest all name that branch.
C18_BranchResolution ==
    (run.status \in {"running", "ok", "err"} /\ "probe" \in StepsOf(run))
    => /\ run.default_branch = (IF run.remote_main THEN "main" ELSE "master")
       /\ (LastStep(run).step = "probe" /\ ~LastStep(run).ok)
          => (run.status = "running" /\ run.fail_tries <= ProbeRetries)
       /\ \A i \in 1..3 :
             BranchIn(SyncCommands(run.default_branch)[i]) = run.default_branch
       /\ \A i \in 3..4 :
             BranchIn(FinalCommands(run.default_branch, config.backup_name)[i])
                = run.default_branch
       /\ run.pushed => run.pushed_branch = run.default_branch
       /\ (run.status = "running" /\ run.pc = "publish" /\ fs.manifest.written)
          => fs.manifest.branch = run.default_branch


\* the steps of the sync phase whose command ends in || true
SyncTolerant == {"fetch", "pull_sync"}

\* C19 as stated: the fetch and the pull of the sync phase never fail the
\* run, and a checkout that failed is the last step of a run that has
\* returned an error.
C19_SyncNeverAborts ==
    \A i \in 1..Len(run.log) :
       /\ run.log[i].step \in SyncTolerant => run.log[i].ok
       /\ (run.log[i].step = "checkout" /\ ~run.log[i].ok)
          => (i = Len(run.log) /\ run.status = "err")

\* C19, amended: git's exit status never fails the fetch or the pull of the
\* sync phase: such a step fails only when its process did not spawn on any
\* of the 3 attempts, and else the run goes on, fetch to checkout and pull
\* to the exclusion file and the archives; a checkout that failed, by a
\* non-zero exit or a failure to spawn, on all 3 attempts is the last step
\* of a run that has returned its error.
C19_SyncTolerance ==
    /\ \A i \in 1..Len(run.log) :
          (run.log[i].step \in SyncTolerant \cup {"checkout"} /\ ~run.log[i].ok)
          => /\ i = Len(run.log)
             /\ run.status = "err"
             /\ run.fail_tries = PipelineRetries
             /\ run.log[i].step \in SyncTolerant => run.error.text \in SpawnErrs
    /\ \A i \in 1..(Len(run.log) - 1) :
          /\ (run.log[i].step = "fetch" /\ run.log[i].ok)
             => run.log[i + 1].step = "checkout"
          /\ (run.log[i].step = "pull_sync" /\ run.log[i].ok)
             => run.log[i + 1].step \in {"gitignore", "mkdir_run"}

\* a checkout failed on all 3 attempts with a stderr, after a fetch that
\* went through
C19_Witness ==
    /\ run.status = "err"
    /\ Len(run.log) >= 2
    /\ LastStep(run) = [step |-> "checkout", ok |-> FALSE]
    /\ run.log[Len(run.log) - 1] = [step |-> "fetch", ok |-> TRUE]
    /\ run.fail_tries = PipelineRetries
    /\ run.error.text \notin SpawnErrs


\* C20 as stated: the pass of the daemon's loop that fired has slept 60
\* seconds when the next poll is made, and a pass that did not fire 30
\* seconds.
C20_SleepSixtyOrThirty ==
    [][/\ (d_pc = "backup" /\ d_pc' = "poll") => slept' = FireSleepTicks
       /\ (d_pc = "poll" /\ d_pc' = "poll") => slept' = PollSleepTicks]_vars

\* C20, amended: the pass that fired, whatever the run returned, has slept
\* 60 seconds and then the 30 seconds that end every pass, 90 seconds in
\* all, and the clock has moved on by that and by what the run took; a pass
\* that did not fire has slept 30 seconds, and the clock has moved on by
\* that.
C20_SleepNinetyOrThirty ==
    [][/\ (d_pc = "backup" /\ d_pc' = "poll")
          => /\ run.status \in {"ok", "err"}
             /\ slept' = FireSleepTicks + PollSleepTicks
             /\ clock' - clock - slept' \in 0..MaxRunTicks
       /\ (d_pc = "poll" /\ d_pc' = "poll")
          => /\ slept' = PollSleepTicks
             /\ clock' = clock + PollSleepTicks]_vars

\* the poll that follows a firing whose run returned an error
C20_Witness ==
    /\ d_pc = "poll"
    /\ slept = FireSleepTicks + PollSleepTicks
    /\ fire_day = Day(clock)
    /\ ok_day # fire_day


(***************************************************************************)
(* manage_backup_paths (lines 117-173), entered from the menu with choice  *)
(* "2", and the filesystem changing under it.  Each action is one pass of  *)
(* its loop.                                                               *)
(***************************************************************************)
\* Vec::contains
Contains(paths, p) == \E i \in 1..Len(paths) : paths[i] = p

\* backup_paths after choice "1" with the path p: there is path_obj.exists(),
\* create is the answer "y" to the offer to create the directory
PathsAfterAdd(paths, p, there, create) ==
    IF there
    THEN IF ~Contains(paths, p) THEN Append(paths, p) ELSE paths
    ELSE IF create THEN Append(paths, p) ELSE paths

\* the ? on what manage_backup_paths returned (line 603)
PathsAfter(ok) == IF ok THEN "paths" ELSE "exit_err"

\* choice "2" of the menu: the call of manage_backup_paths(&mut config)
M_Paths ==
    /\ m_pc = "menu"
    /\ m_pc' = "paths"
    /\ UNCHANGED <<ex, cfgVars, pipeVars, daemonVars, m_runs, exists>>

\* choice "1" of manage_backup_paths: lines 135-158
P_Add ==
    /\ m_pc = "paths"
    /\ \E p \in Paths, create \in BOOLEAN :
          LET there == p \in exists
              paths == PathsAfterAdd(config.backup_paths, p, there, create)
          IN  /\ Len(paths) <= MaxPaths
              /\ IF ~there /\ create
                 THEN \E made \in BOOLEAN :
                         IF made
                         THEN /\ exists' = exists \cup {p}
                              /\ config' = [config EXCEPT !.backup_paths = paths]
                              /\ \E how \in SaveOutcomes :
                                    /\ disk' = Saved(config', disk, how)
                                    /\ m_pc' = PathsAfter(how = "ok")
                         ELSE /\ m_pc' = PathsAfter(FALSE)
                              /\ UNCHANGED <<exists, cfgVars>>
                 ELSE /\ config' = [config EXCEPT !.backup_paths = paths]
                      /\ \E how \in SaveOutcomes :
                            /\ disk' = Saved(config', disk, how)
                            /\ m_pc' = PathsAfter(how = "ok")
                      /\ UNCHANGED exists
    /\ UNCHANGED <<ex, pipeVars, daemonVars, m_runs>>

\* choice "2" of manage_backup_paths with the answer "y": lines 159-168
P_Clear ==
    /\ m_pc = "paths"
    /\ config.backup_paths # <<>>
    /\ config' = [config EXCEPT !.backup_paths = <<>>]
    /\ \E how \in SaveOutcomes :
          /\ disk' = Saved(config', disk, how)
          /\ m_pc' = PathsAfter(how = "ok")
    /\ UNCHANGED <<ex, pipeVars, daemonVars, m_runs, exists>>

\* choice "3" of manage_backup_paths: break, Ok(())
P_Back ==
    /\ m_pc = "paths"
    /\ m_pc' = "menu"
    /\ UNCHANGED <<ex, cfgVars, pipeVars, daemonVars, m_runs, exists>>

\* somebody creates a path while the program waits for input
FS_Create ==
    /\ m_pc \in {"menu", "paths"}
    /\ \E p \in Paths \ exists : exists' = exists \cup {p}
    /\ UNCHANGED <<ex, cfgVars, pipeVars, daemonVars, m_pc, m_runs>>

\* somebody deletes a path while the program waits for input
FS_Delete ==
    /\ m_pc \in {"menu", "paths"}
    /\ \E p \in exists : exists' = exists \ {p}
    /\ UNCHANGED <<ex, cfgVars, pipeVars, daemonVars, m_pc, m_runs>>

\* the menu of a configuration that has everything but paths, on a
\* filesystem with any of the paths there
InitPaths ==
    /\ ex = ExecIdle
    /\ PipeInit
    /\ config = FullConfig(<<>>)
    /\ clock = 0
    /\ last_backup_day = 0
    /\ d_pc = "off"
    /\ fire_day = 0
    /\ fires_that_day = 0
    /\ ok_day = 0
    /\ slept = 0
    /\ m_pc = "menu"
    /\ m_runs = 0
    /\ exists \in SUBSET Paths

NextPaths ==
    \/ M_Paths
    \/ M_Exit
    \/ P_Add
    \/ P_Clear
    \/ P_Back
    \/ FS_Create
    \/ FS_Delete

SpecPaths == InitPaths /\ [][NextPaths]_vars

(***************************************************************************)
(* Claims about manage_backup_paths, checked under SpecPaths.              *)
(***************************************************************************)

\* C21 as stated: every path occurs at most once in config.backup_paths,
\* whatever was added and cleared and whatever came and went on the
\* filesystem.
C21_NoDuplicatePaths ==
    \A i, j \in 1..Len(config.backup_paths) :
       i # j => config.backup_paths[i] # config.backup_paths[j]


(***************************************************************************)
(* Claims about the schedule, checked under Spec.                          *)
(***************************************************************************)
\* the configured time of day is there and parses
ValidTime(cfg) == cfg.backup_time.some /\ ParsesAsTime(cfg.backup_time)

\* the first tick of the configured minute, in the day
ScheduledTick(cfg) ==
    (cfg.backup_time.hh * MinutesPerHour + cfg.backup_time.mm) * TicksPerMinute

\* the tick of now in its day
TickOfDay(now) == now % TicksPerDay

\* C22: the polls that fire are fixed by the configured time of day alone,
\* whatever the configured frequency, weekly and monthly included: a
\* firing is at a poll inside the configured minute, and on every day the
\* daemon has fired once its polls are past that minute.
C22_FrequencyIgnored ==
    /\ d_pc = "backup"
       => /\ ValidTime(config)
          /\ TickOfDay(clock) \in
                ScheduledTick(config)..(ScheduledTick(config) + TicksPerMinute - 1)
    /\ (d_pc = "poll" /\ ValidTime(config)
        /\ TickOfDay(clock) >= ScheduledTick(config) + TicksPerMinute)
       => fire_day = Day(clock)

\* a weekly schedule past its firing of the second day
C22_Witness ==
    /\ d_pc = "poll"
    /\ config.backup_frequency = "Weekly"
    /\ Day(clock) = 2
    /\ fire_day = 2
    /\ TickOfDay(clock) >= ScheduledTick(config) + TicksPerMinute


\* C23 as stated: when the fallback tar is about to run for the target at
\* run.path_idx, the holding area of its index is there and has the copy made
\* in this run and nothing left by an earlier use.
C23_HoldingAreaIsolated ==
    (run.status = "running" /\ run.pc = "fb_tar")
    => \E a \in hold : /\ a.idx = run.path_idx - 1
                       /\ a.new
                       /\ ~a.old


\* now is inside the configured minute
InScheduledMinute(cfg, now) ==
    TickOfDay(now) \in ScheduledTick(cfg)..(ScheduledTick(cfg) + TicksPerMinute - 1)

\* C24: with a valid configured time, a pass of the loop that does not fire
\* and begins before the configured minute does not end after it, and a
\* poll inside the configured minute on a day whose ordinal is not
\* last_backup_day invokes the pipeline, so that once the polls of a day are
\* past the minute the pipeline has been invoked on that day; with no time
\* configured, or one that does not parse, the pipeline is never invoked, and
\* the next poll is 30 seconds after each poll.
C24_NeverMissesMinute ==
    /\ []((d_pc = "poll" /\ ValidTime(config) /\ slept = PollSleepTicks
           /\ TickOfDay(clock) >= ScheduledTick(config) + TicksPerMinute)
          => fire_day = Day(clock))
    /\ [](~ValidTime(config)
          => (d_pc = "poll" /\ fire_day = 0 /\ run.status = "idle"))
    /\ [][/\ (d_pc = "poll" /\ ValidTime(config) /\ InScheduledMinute(config, clock)
              /\ Ordinal(clock) # last_backup_day)
             => (d_pc' = "backup" /\ fire_day' = Day(clock))
          /\ (d_pc = "poll" /\ d_pc' = "poll" /\ ValidTime(config)
              /\ TickOfDay(clock) < ScheduledTick(config))
             => (Day(clock') = Day(clock)
                 /\ TickOfDay(clock') < ScheduledTick(config) + TicksPerMinute)
          /\ (d_pc = "poll" /\ ~ValidTime(config))
             => (d_pc' = "poll" /\ clock' = clock + PollSleepTicks)]_vars

\* an idle poll at the beginning of the configured minute of the second
\* day, after a first day whose run failed
C24_Witness ==
    /\ d_pc = "poll"
    /\ ValidTime(config)
    /\ slept = PollSleepTicks
    /\ Day(clock) = 2
    /\ TickOfDay(clock) = ScheduledTick(config)
    /\ fire_day = 1
    /\ last_backup_day = 0

=============================================================================
